---- MODULE Spec2Model ----
(***************************************************************************)
(* State-machine model of the X120x UPS monitor, src/merged_v2.py:         *)
(* start-up, the monitoring loop of main(), shutdown_now() and the         *)
(* signal handler cleanup_and_exit().                                      *)
(*                                                                         *)
(* Units.  Python floats are replaced by exact integers:                   *)
(*   voltage  in units of 1/8 microvolt  (1 V = 8,000,000)                 *)
(*   capacity in units of 1/256 percent  (1 % = 256)                       *)
(* read_voltage returns swapped*1.25/1000/16 V = swapped*625 units and     *)
(* read_capacity returns swapped/256 % = swapped units, so every value the *)
(* sensor can deliver is represented exactly.                              *)
(***************************************************************************)
EXTENDS Integers, Sequences, FiniteSets

VARIABLES
    args,           \* parsed command line (argparse namespace)
    pc,             \* position of the process in main() / cleanup_and_exit()
    exit_status,    \* status passed to sys.exit, None while running
    pidfile,        \* content of the PID file: "absent", "self", "other", "stale"
    bus,            \* global bus: "None" or "SMBus"
    pld_line,       \* global pld_line: "None" or "line"
    line_requests,  \* number of pld_line.request() calls that succeeded
    line_releases,  \* number of pld_line.release() calls made
    bus_closes,     \* number of bus.close() calls made
    ac_power_lost_consecutive_checks,
    critical_consecutive_checks,
    iterations_remaining,
    ac_power_state, \* 0, 1 or None
    voltage,        \* None or units of 1/8 microvolt
    capacity,       \* None or units of 1/256 percent
    battery_status_str,
    should_shutdown,
    shutdown_reason,
    shutdown_now_calls, \* number of times shutdown_now() was entered
    shutdown_calls, \* number of times call(["shutdown","-h","now"]) ran
    polls,          \* number of loop iterations started
    signals,        \* number of SIGINT/SIGTERM deliveries
    classified,     \* get_battery_status was called in the current poll
    predicate_evaluated, \* line 295 was reached in the current poll
    hist,           \* the last MaxConf completed polls, newest last
    log_events,     \* messages lines 286-326 logged in the current poll
    twin,           \* the same engine run with dry_run negated, on the same inputs
    legacy,         \* the loop of merged.py run on the same reads
    procs,          \* two monitor processes started on one PID-file path
    target_pidfile, \* that PID file: "absent", "empty" or the PID it holds
    line_holder     \* the process holding GPIO line PLD_PIN, or "none"

vars == <<args, pc, exit_status, pidfile, bus, pld_line, line_requests,
          line_releases, bus_closes, ac_power_lost_consecutive_checks,
          critical_consecutive_checks, iterations_remaining, ac_power_state,
          voltage, capacity, battery_status_str, should_shutdown,
          shutdown_reason, shutdown_now_calls, shutdown_calls, polls, signals, classified,
          predicate_evaluated, hist, log_events, twin, legacy, procs, target_pidfile,
          line_holder>>

----------------------------------------------------------------------------
(* Bounds of the model *)
MaxPolls == 4
MaxSignals == 2
MaxConf == 2
MaxIter == 2

(* Python's None for the numeric variables (no reading is negative) *)
None == -1

(* Unit conversions *)
Volts(centi) == centi * 80000
Percent(p) == p * 256

(* Program constants *)
DEFAULT_MIN_CAPACITY_SHUTDOWN == Percent(30)
DEFAULT_MIN_VOLTAGE_SHUTDOWN == Volts(320)
DEFAULT_AC_LOSS_CONFIRMATIONS == 1
DEFAULT_SHUTDOWN_CONFIRMATIONS == 1

----------------------------------------------------------------------------
(* Sensor port *)

\* struct.unpack("<H", struct.pack(">H", read))[0]: byte swap of a 16-bit word
Swap16(read) == (read % 256) * 256 + (read \div 256)

read_voltage(read) == Swap16(read) * 625

read_capacity(read) == Swap16(read)

\* Words read_word_data can return for the voltage register:
\* 0x0000 = 0 V, 0x0100 = one count (78.125 uV), 0x00A0 = 3.20 V
VoltageWords == {0, 256, 160}

\* Words for the capacity register:
\* 0x0000 = 0 %, 0x001E = 30 %, 0x0064 = 100 %, 0x0164 = 100 % + 1/256
CapacityWords == {0, 30, 100, 356}

\* A read that raises (OSError or other)
ReadError == -2

\* get_battery_status with line 84 testing "3.7 < voltage"
get_battery_status_Gap(v, min_voltage_shutdown) ==
    IF Volts(387) <= v /\ v <= Volts(425) THEN "Full"
    ELSE IF Volts(370) < v /\ v < Volts(387) THEN "High"
    ELSE IF Volts(355) <= v /\ v < Volts(370) THEN "Medium"
    ELSE IF Volts(340) <= v /\ v < Volts(355) THEN "Low"
    ELSE IF min_voltage_shutdown <= v /\ v < Volts(340) THEN "Very Low"
    ELSE IF v < min_voltage_shutdown THEN "Critical"
    ELSE "Unknown"

get_battery_status(v, min_voltage_shutdown) ==
    IF Volts(387) <= v /\ v <= Volts(425) THEN "Full"
    ELSE IF Volts(370) <= v /\ v < Volts(387) THEN "High"
    ELSE IF Volts(355) <= v /\ v < Volts(370) THEN "Medium"
    ELSE IF Volts(340) <= v /\ v < Volts(355) THEN "Low"
    ELSE IF min_voltage_shutdown <= v /\ v < Volts(340) THEN "Very Low"
    ELSE IF v < min_voltage_shutdown THEN "Critical"
    ELSE "Unknown"

----------------------------------------------------------------------------
(* Start-up: main() lines 189-240 *)

ArgsSpace ==
    [dry_run : BOOLEAN,
     no_pld : BOOLEAN,
     iterations : -1 .. MaxIter,
     ac_loss_confirmations : 0 .. MaxConf,
     shutdown_confirmations : 0 .. MaxConf,
     min_capacity_shutdown : {DEFAULT_MIN_CAPACITY_SHUTDOWN},
     min_voltage_shutdown : {DEFAULT_MIN_VOLTAGE_SHUTDOWN}]

----------------------------------------------------------------------------
(* The loop of merged.py, stepped once per poll on the values merged_v2.py   *)
(* reads.                                                                     *)

MIN_CAPACITY_SHUTDOWN == Percent(30)
MIN_VOLTAGE_SHUTDOWN == Volts(320)

readVoltage(read) == Swap16(read) * 625

readCapacity(read) == Swap16(read)

\* merged.py before its first iteration (line 96)
LegacyStart == [alive |-> TRUE, ac_power_lost_consecutive_checks |-> 0,
                shutdown_now |-> FALSE, shutdown_reason |-> ""]

\* merged.py after an exception left the loop (lines 135-137)
LegacyDead == [alive |-> FALSE, ac_power_lost_consecutive_checks |-> 0,
               shutdown_now |-> FALSE, shutdown_reason |-> ""]

\* merged.py lines 107-120 on AC state ac and a sample in the model's units
MergedDecision(l, ac, v, c) ==
    IF ac = 0
    THEN LET reason == IF c < MIN_CAPACITY_SHUTDOWN THEN "capacity"
                       ELSE IF v < MIN_VOLTAGE_SHUTDOWN THEN "voltage"
                       ELSE ""
         IN  [alive |-> TRUE,
              ac_power_lost_consecutive_checks |->
                  l.ac_power_lost_consecutive_checks + 1,
              shutdown_now |-> reason # "",
              shutdown_reason |-> reason]
    ELSE [alive |-> TRUE, ac_power_lost_consecutive_checks |-> 0,
          shutdown_now |-> FALSE, shutdown_reason |-> ""]

\* merged.py lines 98-120: one iteration on the words vw and cw; a failed
\* read raises out of the loop
MergedPoll(l, ac, vw, cw) ==
    IF ~l.alive \/ vw = ReadError \/ cw = ReadError
    THEN LegacyDead
    ELSE MergedDecision(l, ac, readVoltage(vw), readCapacity(cw))

----------------------------------------------------------------------------
fleet == <<procs, target_pidfile, line_holder>>

\* the two processes of the PID-file model
Pids == {"p1", "p2"}

\* a process that has not been started
NotStarted == [pc |-> "idle", no_pld |-> FALSE, old_pid |-> "none",
               wrote |-> FALSE, status |-> None]

\* the fleet while a single process is modelled
NoFleet ==
    /\ procs = [p \in Pids |-> NotStarted]
    /\ target_pidfile = "absent"
    /\ line_holder = "none"

Init ==
    /\ args \in ArgsSpace
    /\ pc = "start"
    /\ exit_status = None
    /\ pidfile \in {"absent", "other", "stale"}
    /\ bus = "None"
    /\ pld_line = "None"
    /\ line_requests = 0
    /\ line_releases = 0
    /\ bus_closes = 0
    /\ ac_power_lost_consecutive_checks = 0
    /\ critical_consecutive_checks = 0
    /\ iterations_remaining = 0
    /\ ac_power_state = None
    /\ voltage = None
    /\ capacity = None
    /\ battery_status_str = "unset"
    /\ should_shutdown = FALSE
    /\ shutdown_reason = ""
    /\ shutdown_now_calls = 0
    /\ shutdown_calls = 0
    /\ polls = 0
    /\ signals = 0
    /\ classified = FALSE
    /\ predicate_evaluated = FALSE
    /\ hist = <<>>
    /\ log_events = {}
    /\ twin = [ac_streak |-> 0, crit |-> 0, triggers |-> 0, commands |-> 0]
    /\ legacy = LegacyStart
    /\ NoFleet

resources == <<bus, pld_line, line_requests, line_releases, bus_closes>>
counters == <<ac_power_lost_consecutive_checks, critical_consecutive_checks>>
sample == <<voltage, capacity, battery_status_str, classified>>
decision == <<should_shutdown, shutdown_reason, predicate_evaluated>>
executor == <<shutdown_now_calls, shutdown_calls>>
loopvars == <<counters, iterations_remaining, ac_power_state, sample, decision,
              executor, polls, hist, log_events, twin, legacy>>
solo == <<args, pc, exit_status, pidfile, resources, loopvars, signals>>

\* sys.exit(status)
Exit(status) ==
    /\ pc' = "exited"
    /\ exit_status' = status

\* Control passes to cleanup_and_exit, which ends in sys.exit(0): main() never
\* resumes and cleanup_and_exit reads none of its locals, so they are dropped
\* here together with the per-poll bookkeeping.
LeaveMain ==
    /\ pc' = "c_release"
    /\ ac_power_lost_consecutive_checks' = 0
    /\ critical_consecutive_checks' = 0
    /\ iterations_remaining' = 0
    /\ ac_power_state' = None
    /\ voltage' = None
    /\ capacity' = None
    /\ battery_status_str' = "unset"
    /\ should_shutdown' = FALSE
    /\ shutdown_reason' = ""
    /\ classified' = FALSE
    /\ predicate_evaluated' = FALSE
    /\ hist' = <<>>
    /\ log_events' = {}
    /\ twin' = [twin EXCEPT !.ac_streak = 0, !.crit = 0]
    /\ legacy' = LegacyStart

\* lines 195-196: the handlers for SIGINT and SIGTERM are installed
InstallHandlers ==
    /\ pc = "start"
    /\ pc' = "validate"
    /\ UNCHANGED <<fleet, args, exit_status, pidfile, resources, loopvars, signals>>

\* lines 198-208 without the test of lines 209-211
ValidateArgs_NoShutdownCheck ==
    /\ pc = "validate"
    /\ IF \/ args.iterations < 0
          \/ args.ac_loss_confirmations < 1
       THEN Exit(2)
       ELSE pc' = "ensure_check" /\ UNCHANGED exit_status
    /\ UNCHANGED <<fleet, args, pidfile, resources, loopvars, signals>>

\* lines 198-211
ValidateArgs ==
    /\ pc = "validate"
    /\ IF \/ args.iterations < 0
          \/ args.ac_loss_confirmations < 1
          \/ args.shutdown_confirmations < 1
       THEN Exit(2)
       ELSE pc' = "ensure_check" /\ UNCHANGED exit_status
    /\ UNCHANGED <<fleet, args, pidfile, resources, loopvars, signals>>

\* ensure_single_instance, lines 98-110
EnsureCheck ==
    /\ pc = "ensure_check"
    /\ IF pidfile = "other"
       THEN Exit(1) /\ UNCHANGED pidfile
       ELSE /\ pidfile' = "absent"
            /\ pc' = "ensure_write"
            /\ UNCHANGED exit_status
    /\ UNCHANGED <<fleet, args, resources, loopvars, signals>>

\* ensure_single_instance, lines 112-115
EnsureWrite ==
    /\ pc = "ensure_write"
    /\ pidfile' = "self"
    /\ pc' = "init_bus"
    /\ UNCHANGED <<fleet, args, exit_status, resources, loopvars, signals>>

\* ensure_single_instance, lines 116-118: open(..., "w") raises IOError
EnsureWriteFails ==
    /\ pc = "ensure_write"
    /\ Exit(1)
    /\ UNCHANGED <<fleet, args, pidfile, resources, loopvars, signals>>

\* lines 219-221
InitBus ==
    /\ pc = "init_bus"
    /\ bus' = "SMBus"
    /\ pc' = "init_gpio"
    /\ UNCHANGED <<fleet, args, exit_status, pidfile, pld_line, line_requests,
                   line_releases, bus_closes, loopvars, signals>>

\* lines 223-226
InitGpio ==
    /\ pc = "init_gpio"
    /\ IF args.no_pld
       THEN pc' = "enter_loop" /\ UNCHANGED pld_line
       ELSE pc' = "request" /\ pld_line' = "line"
    /\ UNCHANGED <<fleet, args, exit_status, pidfile, bus, line_requests,
                   line_releases, bus_closes, loopvars, signals>>

\* lines 227-228
RequestLine ==
    /\ pc = "request"
    /\ line_requests' = line_requests + 1
    /\ pc' = "enter_loop"
    /\ UNCHANGED <<fleet, args, exit_status, pidfile, bus, pld_line,
                   line_releases, bus_closes, loopvars, signals>>

\* smbus2.SMBus(), gpiod.Chip(), get_line() or request() raises
InitFails ==
    /\ pc \in {"init_bus", "request"} \/ (pc = "init_gpio" /\ ~args.no_pld)
    /\ pc' = "except"
    /\ UNCHANGED <<fleet, args, exit_status, pidfile, resources, loopvars, signals>>

\* lines 230-240
EnterLoop ==
    /\ pc = "enter_loop"
    /\ ac_power_lost_consecutive_checks' = 0
    /\ critical_consecutive_checks' = 0
    /\ iterations_remaining' = args.iterations
    /\ pc' = "loop_top"
    /\ UNCHANGED <<fleet, args, exit_status, pidfile, resources, ac_power_state,
                   sample, decision, executor, polls, hist, log_events, twin,
                   legacy, signals>>

----------------------------------------------------------------------------
(* The monitoring loop: main() lines 242-334 *)

\* line 267 with the upper bound made exclusive
CapacityInRange_Exclusive(c) == Percent(0) <= c /\ c < Percent(100)

\* line 267
CapacityInRange(c) == Percent(0) <= c /\ c <= Percent(100)

\* line 273
VoltageInRange(v) == Volts(0) < v /\ v < Volts(600)

\* line 280, also the second half of line 294
SamplePresent(v, c) == v # None /\ c # None

\* lines 265, 271, 277
CriticalAfterValidation(v, c, crit) == IF SamplePresent(v, c) THEN crit ELSE 0

\* line 294 without the AC-loss confirmation test
PredicateGate_NoStreak(streak, v, c) == SamplePresent(v, c)

\* line 294 without the test for a present sample
PredicateGate_NoSample(streak, v, c) == streak >= args.ac_loss_confirmations

\* line 294 passing one poll before the AC-loss counter reaches the threshold
PredicateGate_OneEarly(streak, v, c) ==
    streak + 1 >= args.ac_loss_confirmations /\ SamplePresent(v, c)

\* line 294
PredicateGate(streak, v, c) ==
    streak >= args.ac_loss_confirmations /\ SamplePresent(v, c)

\* lines 295-304 with the voltage test before the capacity test
TripReason_VoltageFirst(v, c) ==
    IF v < args.min_voltage_shutdown THEN "voltage"
    ELSE IF c < args.min_capacity_shutdown THEN "capacity"
    ELSE ""

\* lines 295-304: "" when the predicate does not trip
TripReason(v, c) ==
    IF c < args.min_capacity_shutdown THEN "capacity"
    ELSE IF v < args.min_voltage_shutdown THEN "voltage"
    ELSE ""

\* lines 305-308 without the reset of the AC-loss counter
AcStreakAfter_NoReset(ac, streak) == IF ac = 0 THEN streak + 1 ELSE streak

\* line 289 testing "not plugged in" instead of "== 0"
AcStreakAfter_NotOne(ac, streak) == IF ac # 1 THEN streak + 1 ELSE 0

\* line 290 executed only when the poll has a sample
AcStreakAfter_NeedsSample(ac, streak) ==
    IF ac = 0
    THEN IF SamplePresent(voltage, capacity) THEN streak + 1 ELSE streak
    ELSE 0

\* lines 289-290, 305-312
AcStreakAfter(ac, streak) == IF ac = 0 THEN streak + 1 ELSE 0

\* lines 314-320 without the else branch
CriticalAfter_NoReset(ac, should, crit) ==
    LET kept == IF ac = 0 THEN crit ELSE 0
    IN  IF should THEN kept + 1 ELSE kept

\* lines 309, 312, 314-320
CriticalAfter(ac, should, crit) ==
    LET kept == IF ac = 0 THEN crit ELSE 0
    IN  IF should THEN kept + 1 ELSE 0

\* line 322 passing one poll before the counter reaches the threshold
TriggerCondition_OneShort(crit) == crit + 1 >= args.shutdown_confirmations

\* line 322 with > in place of >=
TriggerCondition_Strict(crit) == crit > args.shutdown_confirmations

\* line 322
TriggerCondition(crit) == crit >= args.shutdown_confirmations

\* shutdown_now without the early return of lines 172-174
shutdown_now_NoReturn(dry_run) == 1

\* shutdown_now, lines 171-186: the number of shutdown commands it runs
shutdown_now(dry_run) == IF dry_run THEN 0 ELSE 1

\* the messages of lines 291, 307 and 316, given the AC state, the AC-loss
\* counter before the poll and should_shutdown
DebounceLog(ac, streak, should) ==
    (IF ac = 0 THEN {"ac_lost"} ELSE {})
    \cup (IF ac = 1 /\ streak > 0 THEN {"ac_restored"} ELSE {})
    \cup (IF should THEN {"critical_detected"} ELSE {})

HistWindow == MaxConf

Remember(h, e) ==
    IF Len(h) < HistWindow THEN Append(h, e) ELSE Append(Tail(h), e)

\* lines 242-252: top of an iteration, AC state read from the PLD line.
\* battery_status_str keeps its previous value in Python, but it is only read
\* at line 283 right after line 281 assigns it; it is cleared here instead.
LoopTop ==
    /\ pc = "loop_top"
    /\ polls < MaxPolls
    /\ polls' = polls + 1
    /\ IF args.no_pld
       THEN ac_power_state' = None
       ELSE \E value \in {0, 1} : ac_power_state' = value
    /\ voltage' = None
    /\ capacity' = None
    /\ battery_status_str' = "unset"
    /\ classified' = FALSE
    /\ predicate_evaluated' = FALSE
    /\ pc' = "read"
    /\ UNCHANGED <<fleet, args, exit_status, pidfile, resources, counters,
                   iterations_remaining, should_shutdown,
                   shutdown_reason, executor, hist, twin, legacy, signals>>
    /\ log_events' = {}

\* line 247: pld_line.get_value() raises; nothing in the loop catches it
ReadAcFails ==
    /\ pc = "loop_top"
    /\ polls < MaxPolls
    /\ ~args.no_pld
    /\ polls' = polls + 1
    /\ pc' = "except"
    /\ UNCHANGED <<fleet, args, exit_status, pidfile, resources, counters,
                   iterations_remaining, ac_power_state, sample, decision,
                   executor, hist, log_events, twin, legacy, signals>>

\* lines 253-259: read_capacity is not called when read_voltage raises
ReadSensors ==
    /\ pc = "read"
    /\ \E vw \in VoltageWords \cup {ReadError},
          cw \in CapacityWords \cup {ReadError} :
          /\ voltage' = IF vw = ReadError THEN None ELSE read_voltage(vw)
          /\ capacity' = IF vw = ReadError \/ cw = ReadError
                         THEN None ELSE read_capacity(cw)
          /\ legacy' = MergedPoll(legacy, ac_power_state, vw, cw)
    /\ pc' = "validate_sample"
    /\ UNCHANGED <<fleet, args, exit_status, pidfile, resources, counters,
                   iterations_remaining, ac_power_state, battery_status_str,
                   classified, decision, executor, polls, hist, log_events,
                   twin, signals>>

\* lines 261-284
ValidateSample ==
    /\ pc = "validate_sample"
    /\ LET c1 == IF SamplePresent(voltage, capacity) /\ ~CapacityInRange(capacity)
                 THEN None ELSE capacity
           v1 == IF SamplePresent(voltage, capacity) /\ ~VoltageInRange(voltage)
                 THEN None ELSE voltage
       IN  /\ capacity' = c1
           /\ voltage' = v1
           /\ critical_consecutive_checks' =
                  CriticalAfterValidation(v1, c1, critical_consecutive_checks)
           /\ twin' = [twin EXCEPT
                  !.crit = CriticalAfterValidation(v1, c1, twin.crit)]
           /\ classified' = SamplePresent(v1, c1)
           /\ battery_status_str' =
                  IF SamplePresent(v1, c1)
                  THEN get_battery_status(v1, args.min_voltage_shutdown)
                  ELSE battery_status_str
    /\ pc' = "debounce"
    /\ UNCHANGED <<fleet, args, exit_status, pidfile, resources,
                   ac_power_lost_consecutive_checks, iterations_remaining,
                   ac_power_state, decision, executor, polls, hist, log_events,
                   legacy, signals>>

\* lines 286-320
Debounce ==
    /\ pc = "debounce"
    /\ LET streak == AcStreakAfter(ac_power_state, ac_power_lost_consecutive_checks)
           gate == ac_power_state = 0 /\ PredicateGate(streak, voltage, capacity)
           reason == IF gate THEN TripReason(voltage, capacity) ELSE ""
           crit == CriticalAfter(ac_power_state, reason # "",
                                 critical_consecutive_checks)
           tstreak == AcStreakAfter(ac_power_state, twin.ac_streak)
           tgate == ac_power_state = 0 /\ PredicateGate(tstreak, voltage, capacity)
           treason == IF tgate THEN TripReason(voltage, capacity) ELSE ""
       IN  /\ twin' = [twin EXCEPT
                  !.ac_streak = tstreak,
                  !.crit = CriticalAfter(ac_power_state, treason # "", twin.crit)]
           /\ ac_power_lost_consecutive_checks' = streak
           /\ predicate_evaluated' = gate
           /\ shutdown_reason' = reason
           /\ should_shutdown' = (reason # "")
           /\ critical_consecutive_checks' = crit
           /\ log_events' = DebounceLog(ac_power_state,
                  ac_power_lost_consecutive_checks, reason # "")
           /\ hist' = Remember(hist,
                  [ac |-> ac_power_state,
                   valid |-> voltage # None /\ capacity # None,
                   below |-> /\ voltage # None /\ capacity # None
                             /\ \/ capacity < args.min_capacity_shutdown
                                \/ voltage < args.min_voltage_shutdown,
                   evaluated |-> gate,
                   ac_streak |-> streak,
                   crit |-> crit])
    /\ pc' = "decide"
    /\ UNCHANGED <<fleet, args, exit_status, pidfile, resources, iterations_remaining,
                   ac_power_state, sample, executor, polls, legacy, signals>>

\* lines 322-325
Decide ==
    /\ pc = "decide"
    /\ IF TriggerCondition(critical_consecutive_checks)
       THEN /\ shutdown_now_calls' = shutdown_now_calls + 1
            /\ shutdown_calls' = shutdown_calls + shutdown_now(args.dry_run)
            /\ log_events' = log_events \cup {"critical_met"}
            /\ pc' = "cooldown"
       ELSE /\ pc' = "iterations"
            /\ UNCHANGED <<executor, log_events>>
    /\ twin' = IF TriggerCondition(twin.crit)
               THEN [twin EXCEPT
                       !.triggers = twin.triggers + 1,
                       !.commands = twin.commands + shutdown_now(~args.dry_run)]
               ELSE twin
    /\ UNCHANGED <<fleet, args, exit_status, pidfile, resources, counters,
                   iterations_remaining, ac_power_state, sample, decision,
                   polls, hist, legacy, signals>>

\* line 326: time.sleep(30)
Cooldown ==
    /\ pc = "cooldown"
    /\ pc' = "iterations"
    /\ UNCHANGED <<fleet, args, exit_status, pidfile, resources, loopvars, signals>>

\* lines 329-332 without the guard of line 328
IterationCheck_ZeroStops ==
    /\ pc = "iterations"
    /\ IF iterations_remaining <= 1
       THEN LeaveMain
       ELSE /\ iterations_remaining' = iterations_remaining - 1
            /\ pc' = "sleep"
            /\ UNCHANGED <<counters, ac_power_state, sample, decision, hist,
                           log_events, legacy, twin>>
    /\ UNCHANGED <<fleet, args, exit_status, pidfile, resources, executor, polls,
                   signals>>

\* lines 328-332, and line 340 after the break
IterationCheck ==
    /\ pc = "iterations"
    /\ IF iterations_remaining = 1
       THEN LeaveMain
       ELSE /\ iterations_remaining' =
                  IF iterations_remaining > 0 THEN iterations_remaining - 1
                  ELSE iterations_remaining
            /\ pc' = "sleep"
            /\ UNCHANGED <<counters, ac_power_state, sample, decision, hist,
                           log_events, legacy,
                           twin>>
    /\ UNCHANGED <<fleet, args, exit_status, pidfile, resources, executor, polls,
                   signals>>

\* line 334: time.sleep(args.sleep)
Sleep ==
    /\ pc = "sleep"
    /\ pc' = "loop_top"
    /\ UNCHANGED <<fleet, args, exit_status, pidfile, resources, loopvars, signals>>

\* lines 336-338: except Exception -> cleanup_and_exit()
UnhandledException ==
    /\ pc = "except"
    /\ LeaveMain
    /\ UNCHANGED <<fleet, args, exit_status, pidfile, resources, executor, polls,
                   signals>>

----------------------------------------------------------------------------
(* cleanup_and_exit, lines 39-66.  It runs as the SIGINT/SIGTERM handler and *)
(* is called at lines 338 and 340.  A signal delivered while it runs starts  *)
(* it again on top of the interrupted frame; its sys.exit(0) then unwinds    *)
(* both.                                                                     *)

HandlersInstalled == pc \notin {"start", "exited"}

Signal ==
    /\ HandlersInstalled
    /\ signals < MaxSignals
    /\ signals' = signals + 1
    /\ LeaveMain
    /\ UNCHANGED <<fleet, args, exit_status, pidfile, resources, executor, polls>>

\* lines 43-47
CleanupRelease ==
    /\ pc = "c_release"
    /\ IF pld_line # "None"
       THEN /\ line_releases' = line_releases + 1
            /\ pc' = "c_line_none"
       ELSE /\ pc' = "c_close"
            /\ UNCHANGED line_releases
    /\ UNCHANGED <<fleet, args, exit_status, pidfile, bus, pld_line, line_requests,
                   bus_closes, loopvars, signals>>

\* line 48
CleanupLineNone ==
    /\ pc = "c_line_none"
    /\ pld_line' = "None"
    /\ pc' = "c_close"
    /\ UNCHANGED <<fleet, args, exit_status, pidfile, bus, line_requests,
                   line_releases, bus_closes, loopvars, signals>>

\* lines 51-55
CleanupClose ==
    /\ pc = "c_close"
    /\ IF bus # "None"
       THEN /\ bus_closes' = bus_closes + 1
            /\ pc' = "c_bus_none"
       ELSE /\ pc' = "c_pidfile"
            /\ UNCHANGED bus_closes
    /\ UNCHANGED <<fleet, args, exit_status, pidfile, bus, pld_line, line_requests,
                   line_releases, loopvars, signals>>

\* line 56
CleanupBusNone ==
    /\ pc = "c_bus_none"
    /\ bus' = "None"
    /\ pc' = "c_pidfile"
    /\ UNCHANGED <<fleet, args, exit_status, pidfile, pld_line, line_requests,
                   line_releases, bus_closes, loopvars, signals>>

\* lines 58-63
CleanupPidfile ==
    /\ pc = "c_pidfile"
    /\ pidfile' = "absent"
    /\ pc' = "c_exit"
    /\ UNCHANGED <<fleet, args, exit_status, resources, loopvars, signals>>

\* lines 65-66
CleanupExit ==
    /\ pc = "c_exit"
    /\ Exit(0)
    /\ UNCHANGED <<fleet, args, pidfile, resources, loopvars, signals>>

----------------------------------------------------------------------------
Next ==
    \/ InstallHandlers
    \/ ValidateArgs
    \/ EnsureCheck
    \/ EnsureWrite
    \/ EnsureWriteFails
    \/ InitBus
    \/ InitGpio
    \/ RequestLine
    \/ InitFails
    \/ EnterLoop
    \/ LoopTop
    \/ ReadAcFails
    \/ ReadSensors
    \/ ValidateSample
    \/ Debounce
    \/ Decide
    \/ Cooldown
    \/ IterationCheck
    \/ Sleep
    \/ UnhandledException
    \/ Signal
    \/ CleanupRelease
    \/ CleanupLineNone
    \/ CleanupClose
    \/ CleanupBusNone
    \/ CleanupPidfile
    \/ CleanupExit

Spec == Init /\ [][Next]_vars

----------------------------------------------------------------------------
(* get_battery_status on its own: the voltage and the threshold are drawn    *)
(* from the valid domain (0 V, 6 V) and the function is applied once.        *)

\* Thresholds --min-voltage-shutdown can be given: 3.00 V, 3.20 V (default),
\* 3.39 V and 3.50 V
ClassifyThresholds == {Volts(300), Volts(320), Volts(339), Volts(350)}

\* Voltages at, one count (78.125 uV) below and one count above each boundary
\* of lines 82-92 and each threshold, and voltages near the ends of (0, 6)
ClassifyVoltages ==
    {Volts(c) + d * 625 :
        c \in {300, 320, 339, 340, 350, 355, 370, 387, 425}, d \in {-1, 0, 1}}
    \cup {625, Volts(100), Volts(500), Volts(600) - 625}

InitClassify ==
    /\ args \in [dry_run : {FALSE},
                 no_pld : {FALSE},
                 iterations : {0},
                 ac_loss_confirmations : {DEFAULT_AC_LOSS_CONFIRMATIONS},
                 shutdown_confirmations : {DEFAULT_SHUTDOWN_CONFIRMATIONS},
                 min_capacity_shutdown : {DEFAULT_MIN_CAPACITY_SHUTDOWN},
                 min_voltage_shutdown : ClassifyThresholds]
    /\ pc = "classify"
    /\ voltage \in ClassifyVoltages
    /\ exit_status = None
    /\ pidfile = "absent"
    /\ bus = "None"
    /\ pld_line = "None"
    /\ line_requests = 0
    /\ line_releases = 0
    /\ bus_closes = 0
    /\ ac_power_lost_consecutive_checks = 0
    /\ critical_consecutive_checks = 0
    /\ iterations_remaining = 0
    /\ ac_power_state = None
    /\ capacity = None
    /\ battery_status_str = "unset"
    /\ should_shutdown = FALSE
    /\ shutdown_reason = ""
    /\ shutdown_now_calls = 0
    /\ shutdown_calls = 0
    /\ polls = 0
    /\ signals = 0
    /\ classified = FALSE
    /\ predicate_evaluated = FALSE
    /\ hist = <<>>
    /\ log_events = {}
    /\ twin = [ac_streak |-> 0, crit |-> 0, triggers |-> 0, commands |-> 0]
    /\ legacy = LegacyStart
    /\ NoFleet

\* line 281
Classify ==
    /\ pc = "classify"
    /\ battery_status_str' =
           get_battery_status(voltage, args.min_voltage_shutdown)
    /\ classified' = TRUE
    /\ pc' = "classified"
    /\ UNCHANGED <<fleet, args, exit_status, pidfile, resources, counters,
                   iterations_remaining, ac_power_state, voltage, capacity,
                   decision, executor, polls, hist, log_events, twin, legacy,
                   signals>>

NextClassify == Classify

SpecClassify == InitClassify /\ [][NextClassify]_vars

----------------------------------------------------------------------------
(* Two monitor processes started against the same PID-file path. Each step   *)
(* is one system call of ensure_single_instance, of the resource set-up or   *)
(* of cleanup_and_exit, so the two processes interleave between calls.       *)

\* os.kill(old_pid, 0) succeeds: old_pid names a running monitor process
Alive(pid) ==
    pid \in Pids /\ procs[pid].pc \notin {"idle", "exited"}

InitPid ==
    /\ procs = [p \in Pids |-> NotStarted]
    /\ target_pidfile \in {"absent", "dead"}
    /\ line_holder = "none"
    /\ args \in [dry_run : {FALSE},
                 no_pld : {FALSE},
                 iterations : {0},
                 ac_loss_confirmations : {DEFAULT_AC_LOSS_CONFIRMATIONS},
                 shutdown_confirmations : {DEFAULT_SHUTDOWN_CONFIRMATIONS},
                 min_capacity_shutdown : {DEFAULT_MIN_CAPACITY_SHUTDOWN},
                 min_voltage_shutdown : {DEFAULT_MIN_VOLTAGE_SHUTDOWN}]
    /\ pc = "fleet"
    /\ exit_status = None
    /\ pidfile = "absent"
    /\ bus = "None"
    /\ pld_line = "None"
    /\ line_requests = 0
    /\ line_releases = 0
    /\ bus_closes = 0
    /\ ac_power_lost_consecutive_checks = 0
    /\ critical_consecutive_checks = 0
    /\ iterations_remaining = 0
    /\ ac_power_state = None
    /\ voltage = None
    /\ capacity = None
    /\ battery_status_str = "unset"
    /\ should_shutdown = FALSE
    /\ shutdown_reason = ""
    /\ shutdown_now_calls = 0
    /\ shutdown_calls = 0
    /\ polls = 0
    /\ signals = 0
    /\ classified = FALSE
    /\ predicate_evaluated = FALSE
    /\ hist = <<>>
    /\ log_events = {}
    /\ twin = [ac_streak |-> 0, crit |-> 0, triggers |-> 0, commands |-> 0]
    /\ legacy = LegacyStart

\* process p moves to position label
Goto(p, label) == procs' = [procs EXCEPT ![p].pc = label]

\* sys.exit(status) in process p
PidExit(p, status) ==
    procs' = [procs EXCEPT ![p].pc = "exited", ![p].status = status]

\* lines 190-211: the process starts with valid arguments, with or without
\* --no-pld, and installs its signal handlers
PidStart(p) ==
    /\ procs[p].pc = "idle"
    /\ \E flag \in BOOLEAN :
           procs' = [procs EXCEPT ![p].pc = "isfile", ![p].no_pld = flag]
    /\ UNCHANGED <<solo, target_pidfile, line_holder>>

\* line 98: os.path.isfile(target_pidfile)
PidIsFile(p) ==
    /\ procs[p].pc = "isfile"
    /\ Goto(p, IF target_pidfile = "absent" THEN "open_w" ELSE "read")
    /\ UNCHANGED <<solo, target_pidfile, line_holder>>

\* lines 100-101: open for reading and int(read().strip()); a file that has
\* vanished raises IOError and an empty one ValueError, both caught at line 105
PidRead(p) ==
    /\ procs[p].pc = "read"
    /\ IF target_pidfile \in {"absent", "empty"}
       THEN Goto(p, "unlink_stale")
       ELSE procs' = [procs EXCEPT ![p].pc = "kill",
                                   ![p].old_pid = target_pidfile]
    /\ UNCHANGED <<solo, target_pidfile, line_holder>>

\* lines 102-104: os.kill(old_pid, 0); sys.exit(1) when the process exists,
\* ProcessLookupError (caught at line 105) when it does not
PidKill(p) ==
    /\ procs[p].pc = "kill"
    /\ IF Alive(procs[p].old_pid)
       THEN PidExit(p, 1)
       ELSE Goto(p, "unlink_stale")
    /\ UNCHANGED <<solo, target_pidfile, line_holder>>

\* lines 106-110: os.unlink(target_pidfile), an OSError is logged and ignored
PidUnlinkStale(p) ==
    /\ procs[p].pc = "unlink_stale"
    /\ target_pidfile' = "absent"
    /\ Goto(p, "open_w")
    /\ UNCHANGED <<solo, line_holder>>

\* line 113: open(target_pidfile, "w") creates or truncates the file
PidOpen(p) ==
    /\ procs[p].pc = "open_w"
    /\ target_pidfile' = "empty"
    /\ Goto(p, "write")
    /\ UNCHANGED <<solo, line_holder>>

\* lines 116-118: the open fails with IOError, sys.exit(1)
PidOpenFails(p) ==
    /\ procs[p].pc = "open_w"
    /\ PidExit(p, 1)
    /\ UNCHANGED <<solo, target_pidfile, line_holder>>

\* line 114 and the close of the with block: the PID reaches the file
PidWrite(p) ==
    /\ procs[p].pc = "write"
    /\ target_pidfile' = p
    /\ procs' = [procs EXCEPT ![p].pc = "resources", ![p].wrote = TRUE]
    /\ UNCHANGED <<solo, line_holder>>

\* lines 219-236: SMBus and, unless --no-pld, the request of the GPIO line,
\* which the kernel grants to one consumer at a time; a refused request is
\* the exception of line 336, handled by cleanup_and_exit
PidResources(p) ==
    /\ procs[p].pc = "resources"
    /\ IF procs[p].no_pld
       THEN Goto(p, "loop") /\ UNCHANGED line_holder
       ELSE IF line_holder = "none"
            THEN Goto(p, "loop") /\ line_holder' = p
            ELSE Goto(p, "cleanup") /\ UNCHANGED line_holder
    /\ UNCHANGED <<solo, target_pidfile>>

\* SIGINT or SIGTERM once the handlers of lines 195-196 are installed, or the
\* end of the loop (lines 331, 338, 340): cleanup_and_exit is entered
PidLeave(p) ==
    /\ procs[p].pc \in {"isfile", "read", "kill", "unlink_stale", "open_w",
                        "write", "resources", "loop"}
    /\ Goto(p, "cleanup")
    /\ UNCHANGED <<solo, target_pidfile, line_holder>>

\* lines 42-56: the line, if this process requested it, is released and the
\* bus closed
PidCleanupRelease(p) ==
    /\ procs[p].pc = "cleanup"
    /\ line_holder' = IF line_holder = p THEN "none" ELSE line_holder
    /\ Goto(p, "c_unlink")
    /\ UNCHANGED <<solo, target_pidfile>>

\* lines 58-66: the PID file is unlinked if it exists, then sys.exit(0)
PidCleanupUnlink(p) ==
    /\ procs[p].pc = "c_unlink"
    /\ target_pidfile' = "absent"
    /\ PidExit(p, 0)
    /\ UNCHANGED <<solo, line_holder>>

NextPid ==
    \E p \in Pids :
        \/ PidStart(p)
        \/ PidIsFile(p)
        \/ PidRead(p)
        \/ PidKill(p)
        \/ PidUnlinkStale(p)
        \/ PidOpen(p)
        \/ PidOpenFails(p)
        \/ PidWrite(p)
        \/ PidResources(p)
        \/ PidLeave(p)
        \/ PidCleanupRelease(p)
        \/ PidCleanupUnlink(p)

SpecPid == InitPid /\ [][NextPid]_vars

----------------------------------------------------------------------------
(* Properties *)

k == args.ac_loss_confirmations
n == args.shutdown_confirmations

\* the record of the poll whose state update has just completed
LastPoll == hist[Len(hist)]

\* the record of the poll before it
PrevPoll == hist[Len(hist) - 1]

\* the last m polls were all taken with AC absent
LastAbsent(m) ==
    /\ Len(hist) >= m
    /\ \A i \in (Len(hist) - m + 1) .. Len(hist) : hist[i].ac = 0

\* C1: a poll triggers shutdown iff critical_consecutive_checks after its
\* update is >= shutdown_confirmations; a poll that triggers, and the n-1
\* polls before it, each had AC absent with the AC-loss streak confirmed, a
\* valid sample and capacity or voltage below its shutdown threshold.
C1_TriggerIffStreak ==
    [][/\ (pc = "decide" /\ pc' \in {"cooldown", "iterations"}) =>
              ((shutdown_now_calls' = shutdown_now_calls + 1) <=>
               (critical_consecutive_checks >= n))
       /\ (shutdown_now_calls' # shutdown_now_calls) =>
              /\ pc = "decide"
              /\ Len(hist) >= n
              /\ \A i \in (Len(hist) - n + 1) .. Len(hist) :
                     /\ hist[i].ac = 0
                     /\ hist[i].ac_streak >= k
                     /\ hist[i].valid
                     /\ hist[i].below]_vars

C1_Witness ==
    /\ pc = "cooldown"
    /\ n = 2
    /\ k = 2
    /\ shutdown_now_calls = 1

\* C2: the shutdown predicate is evaluated, and critical_consecutive_checks is
\* non-zero after a poll, only on a poll that is at least the k-th consecutive
\* poll with AC absent; a poll with AC present sets the AC-loss count to 0.
C2_MonotonicConfirmation ==
    pc = "decide" =>
        /\ (LastPoll.evaluated \/ critical_consecutive_checks > 0) => LastAbsent(k)
        /\ LastPoll.evaluated = predicate_evaluated
        /\ LastPoll.ac = 1 => ac_power_lost_consecutive_checks = 0
        /\ LastAbsent(1) =>
               ac_power_lost_consecutive_checks =
                   IF Len(hist) >= 2 THEN PrevPoll.ac_streak + 1 ELSE 1

C2_Witness ==
    /\ pc = "decide"
    /\ k = 2
    /\ Len(hist) = 2
    /\ PrevPoll.ac = 0 /\ PrevPoll.below /\ ~PrevPoll.evaluated
    /\ LastPoll.ac = 1
    /\ ac_power_lost_consecutive_checks = 0

\* C3: a poll with AC present ends with both streaks 0 whatever the prior
\* streaks and the sample, does not trigger shutdown, and a second such poll
\* leaves the streaks as the first left them.
C3_AcPresentResets ==
    /\ (pc = "decide" /\ ac_power_state = 1) =>
           /\ ac_power_lost_consecutive_checks = 0
           /\ critical_consecutive_checks = 0
           /\ LastPoll.ac_streak = 0
           /\ LastPoll.crit = 0
    /\ pc = "cooldown" => ac_power_state # 1
    /\ (pc = "decide" /\ Len(hist) >= 2 /\ LastPoll.ac = 1 /\ PrevPoll.ac = 1) =>
           /\ LastPoll.ac_streak = PrevPoll.ac_streak
           /\ LastPoll.crit = PrevPoll.crit

C3_Witness ==
    /\ pc = "decide"
    /\ ac_power_state = 1
    /\ Len(hist) >= 2
    /\ PrevPoll.ac_streak > 0
    /\ PrevPoll.crit > 0
    /\ SamplePresent(voltage, capacity)
    /\ capacity < args.min_capacity_shutdown

\* C4: after a poll whose sample is missing or invalid,
\* critical_consecutive_checks is 0 and the poll does not trigger shutdown,
\* whatever the prior streak and the other reading of the pair.
C4_MissingSampleResilience ==
    /\ (pc = "decide" /\ ~LastPoll.valid) => critical_consecutive_checks = 0
    /\ (pc = "decide" /\ (voltage = None \/ capacity = None)) => ~LastPoll.valid
    /\ pc = "cooldown" => (voltage # None /\ capacity # None)

C4_Witness ==
    /\ pc = "decide"
    /\ ac_power_state = 0
    /\ ac_power_lost_consecutive_checks >= k
    /\ Len(hist) >= 2
    /\ PrevPoll.crit > 0
    /\ capacity = None
    /\ voltage # None
    /\ voltage < args.min_voltage_shutdown

\* C5: with --no-pld both streaks are 0 after every poll, the shutdown
\* predicate is never evaluated and shutdown_now is never called.
C5_NoPldNeverShutsDown ==
    args.no_pld =>
        /\ ac_power_lost_consecutive_checks = 0
        /\ critical_consecutive_checks = 0
        /\ ~predicate_evaluated
        /\ shutdown_now_calls = 0
        /\ shutdown_calls = 0
        /\ pc # "cooldown"

C5_Witness ==
    /\ args.no_pld
    /\ pc = "decide"
    /\ polls >= 2
    /\ ac_power_state = None
    /\ SamplePresent(voltage, capacity)
    /\ capacity < args.min_capacity_shutdown
    /\ voltage < args.min_voltage_shutdown

\* C6: in live mode the shutdown command is not issued again on a poll that
\* follows a poll which already issued it while the critical condition
\* persists (once per confirmed trip).
C6_OncePerTrip ==
    (pc = "cooldown" /\ ~args.dry_run) =>
        ~(Len(hist) >= 2 /\ PrevPoll.crit >= n)

\* C7: no sensor failure inside the loop (voltage, capacity or AC-present read)
\* takes the process out of the monitoring loop.
C7_SensorErrorsRecovered == ~(pc = "except" /\ polls > 0)

\* C8: once the bus and the GPIO line are acquired, the process exits only
\* with the line released exactly once, the bus closed exactly once and the
\* PID file removed.
C8_ReleaseExactlyOnce ==
    (pc = "exited" /\ line_requests = 1) =>
        /\ line_releases = 1
        /\ bus_closes = 1
        /\ pidfile = "absent"

C10_ValidatorPair ==
    [][/\ (pc = "validate_sample" /\ pc' = "debounce") =>
              /\ (voltage' # None /\ capacity' # None) <=>
                     /\ voltage # None
                     /\ capacity # None
                     /\ 0 <= capacity /\ capacity <= 100 * 256
                     /\ 0 < voltage /\ voltage < 6 * 8000000
              /\ (voltage' # None /\ capacity' # None) =>
                     (voltage' = voltage /\ capacity' = capacity)
              /\ classified' <=> (voltage' # None /\ capacity' # None)
       /\ (pc = "debounce" /\ pc' = "decide") =>
              /\ predicate_evaluated' => (voltage # None /\ capacity # None)
              /\ (voltage = None \/ capacity = None) => ~classified
              /\ UNCHANGED <<voltage, capacity, classified>>]_vars

C10_Witness ==
    /\ pc = "decide"
    /\ capacity = Percent(100)
    /\ voltage = read_voltage(256)
    /\ classified
    /\ predicate_evaluated

\* the rows of the boundary table whose condition holds for v and m
TableRows(v, m) ==
    {row \in {"Full", "High", "Medium", "Low", "Very Low", "Critical"} :
        \/ row = "Full" /\ Volts(387) <= v /\ v <= Volts(425)
        \/ row = "High" /\ Volts(370) <= v /\ v < Volts(387)
        \/ row = "Medium" /\ Volts(355) <= v /\ v < Volts(370)
        \/ row = "Low" /\ Volts(340) <= v /\ v < Volts(355)
        \/ row = "Very Low" /\ m <= v /\ v < Volts(340)
        \/ row = "Critical" /\ v < m}

\* C11: for a voltage in (0, 6) and a threshold below 3.4 V the rows of the
\* boundary table do not overlap, get_battery_status returns the row that
\* holds, and it returns Unknown only when no row holds, which is above 4.25 V.
C11_BandsPartition ==
    (pc = "classified" /\ args.min_voltage_shutdown < Volts(340)) =>
        LET rows == TableRows(voltage, args.min_voltage_shutdown)
        IN  /\ Cardinality(rows) <= 1
            /\ rows # {} => battery_status_str \in rows
            /\ rows = {} => battery_status_str = "Unknown"
            /\ battery_status_str = "Unknown" <=> voltage > Volts(425)

C11_Witness ==
    /\ pc = "classified"
    /\ args.min_voltage_shutdown = Volts(339)
    /\ voltage = Volts(339)
    /\ battery_status_str = "Very Low"

\* C15: get_battery_status returns Critical exactly when the voltage is below
\* the configured min_voltage_shutdown, for every configured threshold.
C15_CriticalTracksThreshold ==
    pc = "classified" =>
        (battery_status_str = "Critical" <=>
             voltage < args.min_voltage_shutdown)

\* C12: when the predicate trips the reason is capacity-low whenever capacity
\* is below min_capacity_shutdown and voltage-low only when capacity is not
\* below it and voltage is below min_voltage_shutdown; with both confirmation
\* counts at their default 1, a poll with AC absent, a valid sample and
\* capacity below the threshold triggers shutdown itself, for capacity-low.
C12_ReasonPriority ==
    [][(pc = "decide" /\ pc' \in {"cooldown", "iterations"}) =>
           /\ should_shutdown =>
                  /\ voltage # None /\ capacity # None
                  /\ shutdown_reason = "capacity" <=>
                         capacity < args.min_capacity_shutdown
                  /\ shutdown_reason = "voltage" <=>
                         /\ capacity >= args.min_capacity_shutdown
                         /\ voltage < args.min_voltage_shutdown
           /\ (/\ k = DEFAULT_AC_LOSS_CONFIRMATIONS
               /\ n = DEFAULT_SHUTDOWN_CONFIRMATIONS
               /\ ac_power_state = 0
               /\ voltage # None /\ capacity # None
               /\ capacity < args.min_capacity_shutdown) =>
                  /\ pc' = "cooldown"
                  /\ shutdown_now_calls' = shutdown_now_calls + 1
                  /\ shutdown_reason = "capacity"]_vars

C12_Witness ==
    /\ pc = "cooldown"
    /\ k = DEFAULT_AC_LOSS_CONFIRMATIONS
    /\ n = DEFAULT_SHUTDOWN_CONFIRMATIONS
    /\ polls = 1
    /\ shutdown_reason = "capacity"
    /\ capacity < args.min_capacity_shutdown
    /\ voltage < args.min_voltage_shutdown

CleanupPcs ==
    {"c_release", "c_line_none", "c_close", "c_bus_none", "c_pidfile", "c_exit"}

\* C13: with ac_loss_confirmations < 1 or shutdown_confirmations < 1 the
\* process never gets past the validation of its arguments: it writes no PID
\* file, acquires neither the bus nor the GPIO line, performs no poll, and
\* (unless a signal ends it first) exits with status 2.
C13_BadConfirmationsRejected ==
    (k < 1 \/ n < 1) =>
        /\ pc \in {"start", "validate", "exited"} \cup CleanupPcs
        /\ pidfile # "self"
        /\ bus = "None"
        /\ pld_line = "None"
        /\ line_requests = 0
        /\ polls = 0
        /\ (pc = "exited" /\ signals = 0) => exit_status = 2
        /\ (pc \in CleanupPcs) => signals > 0

C13_Witness ==
    /\ k = 1
    /\ n = 0
    /\ pc = "exited"
    /\ exit_status = 2
    /\ pidfile = "stale"

\* C14: a poll with AC absent and a missing or invalid sample adds exactly 1
\* to ac_power_lost_consecutive_checks and leaves critical_consecutive_checks
\* at 0; when the AC loss was confirmed on such a poll, the next poll with AC
\* absent and a valid sample below a threshold sets the critical count to 1.
C14_AcTrackingIgnoresSample ==
    pc = "decide" =>
        /\ (LastPoll.ac = 0 /\ ~LastPoll.valid) =>
               /\ critical_consecutive_checks = 0
               /\ LastPoll.crit = 0
               /\ LastPoll.ac_streak =
                      (IF Len(hist) >= 2 THEN PrevPoll.ac_streak ELSE 0) + 1
               /\ ac_power_lost_consecutive_checks = LastPoll.ac_streak
        /\ (/\ Len(hist) >= 2
            /\ PrevPoll.ac = 0 /\ ~PrevPoll.valid /\ PrevPoll.ac_streak >= k
            /\ LastPoll.ac = 0 /\ LastPoll.below) =>
               critical_consecutive_checks = 1

C14_Witness ==
    /\ pc = "decide"
    /\ k = 2
    /\ Len(hist) = 2
    /\ PrevPoll.ac = 0 /\ ~PrevPoll.valid /\ PrevPoll.ac_streak = 2
    /\ LastPoll.ac = 0 /\ LastPoll.below
    /\ critical_consecutive_checks = 1

\* C16: the messages for AC lost, AC restored and critical condition met are
\* logged on the first poll of a run of polls in that condition only, not on
\* a poll that follows a poll in the same condition.
C16_TransitionsLoggedOnce ==
    (pc \in {"decide", "cooldown"} /\ Len(hist) >= 2) =>
        /\ (PrevPoll.ac = 0 /\ LastPoll.ac = 0) => "ac_lost" \notin log_events
        /\ (PrevPoll.ac = 1 /\ LastPoll.ac = 1) => "ac_restored" \notin log_events
        /\ (PrevPoll.crit >= n /\ LastPoll.crit >= n) =>
               "critical_met" \notin log_events

\* the processes inside the monitoring loop
InLoop == {p \in Pids : procs[p].pc = "loop"}

\* C17: of two monitor processes started on the same PID-file path, at most
\* one is inside the monitoring loop at any time.
C17_AtMostOneInLoop == Cardinality(InLoop) <= 1

\* merged_v2.py configured as merged.py is: one confirmation of each kind,
\* the thresholds of merged.py, AC sensing on, dry-run off
ConfiguredAsMerged ==
    /\ k = 1
    /\ n = 1
    /\ args.min_capacity_shutdown = MIN_CAPACITY_SHUTDOWN
    /\ args.min_voltage_shutdown = MIN_VOLTAGE_SHUTDOWN
    /\ ~args.dry_run
    /\ ~args.no_pld

\* C18: with merged_v2.py configured as merged.py is, after every poll of a
\* run in which all reads succeeded and whose sample is in range, both have
\* the same AC-loss streak, both or neither decide to shut down, and both
\* give the same reason.
C18_MergedIsConfiguredEngine ==
    (pc = "decide" /\ ConfiguredAsMerged /\ legacy.alive /\ LastPoll.valid) =>
        /\ legacy.ac_power_lost_consecutive_checks =
               ac_power_lost_consecutive_checks
        /\ legacy.shutdown_now = TriggerCondition(critical_consecutive_checks)
        /\ legacy.shutdown_reason = shutdown_reason

C18_Witness ==
    /\ pc = "decide"
    /\ ConfiguredAsMerged
    /\ legacy.alive
    /\ LastPoll.valid
    /\ Len(hist) >= 2
    /\ legacy.shutdown_now
    /\ legacy.shutdown_reason = "voltage"
    /\ legacy.ac_power_lost_consecutive_checks = 2

\* C19: unless a signal arrives, the step after a poll leaves the loop for
\* cleanup_and_exit exactly when --iterations is N >= 1 and this was poll N,
\* and otherwise goes to the sleep of the poll interval (so with
\* --iterations 0 it always sleeps); a run that ends without a signal with
\* status 0 has released the line, closed the bus and removed the PID file.
C19_ExactlyNPolls ==
    /\ [][(pc = "iterations" /\ signals' = signals /\ pc' # pc) =>
            /\ pc' = "c_release" <=>
                   (args.iterations >= 1 /\ polls = args.iterations)
            /\ pc' # "c_release" => pc' = "sleep"]_vars
    /\ [](pc \in {"loop_top", "read", "validate_sample", "debounce",
                  "decide", "cooldown", "iterations", "sleep"} =>
              (args.iterations >= 1 => polls <= args.iterations))
    /\ []((pc = "exited" /\ exit_status = 0 /\ signals = 0) =>
              /\ pld_line = "None"
              /\ bus = "None"
              /\ pidfile = "absent")

C19_Witness ==
    /\ pc = "exited"
    /\ exit_status = 0
    /\ signals = 0
    /\ args.no_pld
    /\ args.iterations = 2
    /\ polls = 2
    /\ bus_closes = 1
    /\ pidfile = "absent"

\* C20: at the end of every poll, a positive critical counter implies that
\* the AC-loss counter has reached ac_loss_confirmations, and the critical
\* counter is at most the AC-loss counter minus ac_loss_confirmations plus 1.
C20_CriticalAfterAcConfirmed ==
    (pc \in {"decide", "cooldown", "iterations", "sleep"}
     /\ critical_consecutive_checks > 0) =>
        /\ ac_power_lost_consecutive_checks >= k
        /\ critical_consecutive_checks <=
               ac_power_lost_consecutive_checks - k + 1

C20_Witness ==
    /\ pc = "iterations"
    /\ k = 2
    /\ critical_consecutive_checks = 2
    /\ ac_power_lost_consecutive_checks = 3

\* the last m polls each carried a valid sample below a shutdown threshold
LastTripping(m) ==
    /\ Len(hist) >= m
    /\ \A i \in (Len(hist) - m + 1) .. Len(hist) :
           hist[i].valid /\ hist[i].below

\* C21: in a run of consecutive polls with AC absent, whose position is the
\* AC-loss counter, shutdown is not triggered before poll k + n - 1, and it is
\* triggered on poll k + n - 1, with the critical counter just reaching n,
\* when polls k .. k + n - 1 of the run each carried a valid sample below a
\* shutdown threshold.
C21_EarliestAndGuaranteedTrigger ==
    pc = "decide" =>
        /\ TriggerCondition(critical_consecutive_checks) =>
               ac_power_lost_consecutive_checks >= k + n - 1
        /\ (/\ ac_power_lost_consecutive_checks = k + n - 1
            /\ LastAbsent(n)
            /\ LastTripping(n)) =>
               /\ critical_consecutive_checks = n
               /\ TriggerCondition(critical_consecutive_checks)

C21_Witness ==
    /\ pc = "cooldown"
    /\ k = 2
    /\ n = 2
    /\ polls = 3
    /\ ac_power_lost_consecutive_checks = 3
    /\ LastTripping(2)
    /\ shutdown_now_calls = 1

\* process p unlinks in cleanup_and_exit a PID file that exists
CleanupRemoves(p) ==
    /\ procs[p].pc = "c_unlink"
    /\ procs'[p].pc = "exited"
    /\ target_pidfile # "absent"
    /\ target_pidfile' = "absent"

\* C22: a process that has not written the PID file does not remove, in
\* cleanup_and_exit, a PID file that holds the PID of another live process.
C22_RemovesOnlyOwnPidFile ==
    [][\A p \in Pids :
           (CleanupRemoves(p) /\ ~procs[p].wrote) =>
               ~(target_pidfile \in Pids \ {p} /\ Alive(target_pidfile))]_vars

====
